---------------------------- MODULE Spec2Model ----------------------------
(***************************************************************************)
(* SyncBeat server (src/server/index.js): the room registry, the binding   *)
(* map, the socket.io room membership of every socket and the socket event *)
(* handlers, one action per handler.                                       *)
(*                                                                         *)
(* JavaScript strings are sequences of one-character strings, so that      *)
(* trim, substring, substr, toUpperCase and length are computed.  null and *)
(* undefined are the markers NULL and UNDEF.  A Map is the sequence of its *)
(* values in insertion order; a Set is a set.                              *)
(***************************************************************************)
EXTENDS Integers, Sequences, FiniteSets, TLC

\* ------------------------------------------------------------- bounds ----
NumConns == 3          \* socket ids 1..NumConns
NumCodes == 2          \* distinct 6-character values the code generator yields
MaxTime  == 1          \* Date.now() ranges over 0..MaxTime
MaxSteps == 3          \* socket events processed in a behaviour of Spec
MaxMemberSteps == 5    \* socket events processed in a behaviour of MemberSpec
MaxPos   == 1          \* positions a host sends range over 0..MaxPos
CapExtra == 2          \* CapacitySpec: sockets beyond the capacity of a room
CapSteps == 3          \* socket events processed in a behaviour of CapacitySpec
ExtraMessages == 2     \* MessageSpec: messages sent beyond the retention bound
SyncSteps == 4         \* socket events processed in a behaviour of SyncSpec
ClientSteps == 4       \* socket events processed in a behaviour of ClientSpec
MaxSkew == 1           \* SkewSpec: how far the client's clock may be behind
ChatSteps == 4         \* socket events processed in a behaviour of ChatSpec
QuerySteps == 4        \* socket events processed in a behaviour of QuerySpec
BodySteps == 3         \* socket events processed in a behaviour of BodySpec
LiveSetupSteps == 3    \* LiveSpec: events processed before only disconnects remain
SnapSteps == 4         \* socket events processed in a behaviour of SnapSpec
SweepSteps == 4        \* events processed in a behaviour of SweepSpec
MaxDays == 2           \* SweepSpec: idle periods longer than RoomTimeout
MaxPlayerTime == 5000  \* PlayerSpec: the video's length in milliseconds

\* -------------------------------------------------- program constants ----
MaxMembers      == 10
MaxMessages     == 100
SnapshotMessages == 50
MaxNameLen      == 50
MaxMessageLen   == 1000
CodeLen         == 6
SeekThreshold   == 2000
RoomTimeout     == 86400000

NULL  == "<null>"
UNDEF == "<undefined>"

Conns == 1..NumConns

Min(a, b) == IF a < b THEN a ELSE b

\* ------------------------------------------------------------ strings ----
Lower == << "a", "b", "c", "d", "e", "f", "g", "h", "i", "j", "k", "l", "m",
           "n", "o", "p", "q", "r", "s", "t", "u", "v", "w", "x", "y", "z" >>
Upper == << "A", "B", "C", "D", "E", "F", "G", "H", "I", "J", "K", "L", "M",
           "N", "O", "P", "Q", "R", "S", "T", "U", "V", "W", "X", "Y", "Z" >>

toUpperCaseChar(ch) ==
  IF \E i \in DOMAIN Lower : Lower[i] = ch
  THEN Upper[CHOOSE i \in DOMAIN Lower : Lower[i] = ch]
  ELSE ch

toUpperCase(s) == [i \in DOMAIN s |-> toUpperCaseChar(s[i])]

\* String.prototype.substring(a, b)
substring(s, a, b) == SubSeq(s, a + 1, Min(b, Len(s)))

\* String.prototype.substr(start, length)
substr(s, start, length) == SubSeq(s, start + 1, Min(start + length, Len(s)))

RECURSIVE trimStart(_)
trimStart(s) == IF s # <<>> /\ Head(s) = " " THEN trimStart(Tail(s)) ELSE s

RECURSIVE trimEnd(_)
trimEnd(s) ==
  IF s # <<>> /\ s[Len(s)] = " " THEN trimEnd(SubSeq(s, 1, Len(s) - 1)) ELSE s

trim(s) == trimEnd(trimStart(s))

sanitizeString(str) == substring(trim(str), 0, MaxMessageLen)

\* ------------------------------------------------------------- inputs ----
NoData == [kind |-> "undefined"]

\* user names a client may type: empty, "a", " b"
RawNames == { <<>>, <<"a">>, <<" ", "b">> }

\* Math.random().toString(36): "0." followed by base-36 digits; the last
\* one is Math.random() = 0.5, printed "0.i"
RandomStrings ==
  { <<"0", ".", Lower[i], "0", "0", "0", "0", "0", "7", "k">> : i \in 1..NumCodes }
    \cup { <<"0", ".", "i">> }

generateCode(rnd) == toUpperCase(substr(rnd, 2, CodeLen))

\* room ids a client may send in join-room: the generated codes as shown,
\* the same in lower case, and the short code
JoinCodes ==
  { generateCode(r) : r \in RandomStrings }
    \cup { substr(r, 2, CodeLen) : r \in RandomStrings }

CreatePayloads == {NoData} \cup { [kind |-> "object", userName |-> n] : n \in RawNames }

JoinPayloads ==
  {NoData} \cup
  { [kind |-> "object", roomId |-> k, userName |-> n] : k \in JoinCodes, n \in RawNames }

\* the inputs of MemberSpec: one user name, the six-character codes
MemberRandomStrings == { r \in RandomStrings : Len(r) >= 2 + CodeLen }

MemberCreatePayloads == { d \in CreatePayloads : d.kind = "object" /\ d.userName = <<"a">> }

MemberJoinPayloads ==
  { d \in JoinPayloads : d.kind = "object" /\ d.userName = <<"a">>
                           /\ d.roomId \in { generateCode(r) : r \in MemberRandomStrings } }

NullTrack  == [kind |-> "null", id |-> UNDEF, duration |-> 0]
UndefTrack == [kind |-> "undefined", id |-> UNDEF, duration |-> 0]
Tracks ==
  { [kind |-> "object", id |-> "v1", duration |-> 1],
    [kind |-> "object", id |-> UNDEF, duration |-> 1],
    UndefTrack }

TrackPayloads == {NoData} \cup { [kind |-> "object", track |-> t] : t \in Tracks }

PlaybackPayloads ==
  {NoData} \cup
  { [kind |-> "object", isPlaying |-> p, position |-> x] : p \in BOOLEAN, x \in 0..MaxPos }

RawBodies == { <<>>, <<"h", "i">> }

MessagePayloads == {NoData} \cup { [kind |-> "object", message |-> b, type |-> UNDEF] : b \in RawBodies }

\* -------------------------------------------------------------- state ----
VARIABLES
  rooms,         \* Map roomId -> Room
  userSessions,  \* Map socket.id -> session
  heartbeats,    \* keys of connectionHeartbeats
  sockets,       \* connected sockets (io.sockets.sockets)
  sockRooms,     \* socket.io rooms each socket has joined
  now,           \* Date.now()
  emitted,       \* events emitted by the last handler, in order
  lastEvent,     \* the event the last handler processed
  steps,         \* events processed so far
  client,        \* the web client of socket ClientSocket: App and Room component state
  inbox,         \* events in flight to the client, in the order they were sent
  delivered,     \* value of steps up to which the server's events are in the inbox
  database,      \* the room's row of the playback_state table (NULL when none)
  player         \* the YouTubePlayer component: props, playerRef and the player behind it

clientVars == <<client, inbox, delivered, database, player>>

vars == <<rooms, userSessions, heartbeats, sockets, sockRooms, now, emitted, lastEvent, steps,
          client, inbox, delivered, database, player>>

\* ---------------------------------------------------------------- Map ----
Keys(m) == { m[i].id : i \in DOMAIN m }

MapHas(m, key) == key \in Keys(m)

MapGet(m, key) == m[CHOOSE i \in DOMAIN m : m[i].id = key]

\* Map.prototype.set: an existing key keeps its place in the iteration order
MapSet(m, key, value) ==
  IF MapHas(m, key)
  THEN [i \in DOMAIN m |-> IF m[i].id = key THEN value ELSE m[i]]
  ELSE Append(m, value)

MapDelete(m, key) == SelectSeq(m, LAMBDA u : u.id # key)

Without(f, key) == [k \in DOMAIN f \ {key} |-> f[k]]

With(f, key, value) == [k \in DOMAIN f \cup {key} |-> IF k = key THEN value ELSE f[k]]

\* --------------------------------------------------------------- Room ----
Room(id, hostId, hostName, t) ==
  [ id |-> id,
    hostId |-> hostId,
    hostName |-> hostName,
    users |-> <<>>,
    messages |-> <<>>,
    currentTrack |-> NullTrack,
    isPlaying |-> FALSE,
    position |-> 0,
    lastUpdateTime |-> t,
    createdAt |-> t,
    playbackState |-> [isPlaying |-> FALSE, position |-> 0, timestamp |-> t, trackId |-> NULL],
    typingUsers |-> {} ]

\* the user object addUser builds (isOnline is always true and lastSeen
\* always equals joinedAt)
User(userId, userName, socketId, t) ==
  [id |-> userId, name |-> userName, socketId |-> socketId, joinedAt |-> t]

\* mutant: the user added becomes the host
addUserAsHost(room, userId, userName, socketId, t) ==
  [room EXCEPT !.users = MapSet(@, userId, User(userId, userName, socketId, t)),
               !.hostId = userId]

addUser(room, userId, userName, socketId, t) ==
  [room EXCEPT !.users = MapSet(@, userId, User(userId, userName, socketId, t))]

removeUser(room, userId) ==
  [room EXCEPT !.users = MapDelete(@, userId), !.typingUsers = @ \ {userId}]

\* the message object addMessage builds (the uuid is a fresh opaque value
\* that nothing compares)
Message(message, t) ==
  [userId |-> message.userId, userName |-> message.userName,
   message |-> message.message, type |-> message.type,
   timestamp |-> t, delivered |-> TRUE]

\* mutant: the retention keeps the oldest n messages
sliceKeepsOldest(s, n) == IF Len(s) > n THEN SubSeq(s, 1, n) ELSE s

\* messages.slice(-n)
slice(s, n) == IF Len(s) > n THEN SubSeq(s, Len(s) - n + 1, Len(s)) ELSE s

addMessage(room, message, t) ==
  [room EXCEPT !.messages = slice(Append(@, Message(message, t)), MaxMessages)]

\* trackData?.id || null
trackIdOrNull(track) ==
  IF track.kind = "object" /\ track.id # UNDEF /\ track.id # "" THEN track.id ELSE NULL

updateTrack(room, trackData, timestamp) ==
  [room EXCEPT !.currentTrack = trackData,
               !.playbackState.trackId = trackIdOrNull(trackData),
               !.playbackState.timestamp = timestamp,
               !.lastUpdateTime = timestamp]

\* mutant: only the playbackState object is replaced
updatePlaybackStateClockOnly(room, isPlaying, position, timestamp) ==
  [room EXCEPT !.playbackState = [isPlaying |-> isPlaying, position |-> position,
                                  timestamp |-> timestamp,
                                  trackId |-> trackIdOrNull(room.currentTrack)],
               !.lastUpdateTime = timestamp]

updatePlaybackState(room, isPlaying, position, timestamp) ==
  [room EXCEPT !.playbackState = [isPlaying |-> isPlaying, position |-> position,
                                  timestamp |-> timestamp,
                                  trackId |-> trackIdOrNull(room.currentTrack)],
               !.isPlaying = isPlaying,
               !.position = position,
               !.lastUpdateTime = timestamp]

\* mutant: a typing-start of a user already typing clears the flag
setUserTypingToggle(room, userId, isTyping) ==
  [room EXCEPT !.typingUsers = IF isTyping /\ userId \notin @ THEN @ \cup {userId}
                                                                ELSE @ \ {userId}]

setUserTyping(room, userId, isTyping) ==
  [room EXCEPT !.typingUsers = IF isTyping THEN @ \cup {userId} ELSE @ \ {userId}]

\* mutant: the snapshot carries every stored message
getCurrentStateAllMessages(room) ==
  [ id |-> room.id,
    hostId |-> room.hostId,
    hostName |-> room.hostName,
    users |-> room.users,
    messages |-> room.messages,
    currentTrack |-> room.currentTrack,
    playbackState |-> room.playbackState,
    isPlaying |-> room.isPlaying,
    position |-> room.position,
    lastUpdateTime |-> room.lastUpdateTime,
    typingUsers |-> room.typingUsers,
    memberCount |-> Len(room.users) ]

getCurrentState(room) ==
  [ id |-> room.id,
    hostId |-> room.hostId,
    hostName |-> room.hostName,
    users |-> room.users,
    messages |-> slice(room.messages, SnapshotMessages),
    currentTrack |-> room.currentTrack,
    playbackState |-> room.playbackState,
    isPlaying |-> room.isPlaying,
    position |-> room.position,
    lastUpdateTime |-> room.lastUpdateTime,
    typingUsers |-> room.typingUsers,
    memberCount |-> Len(room.users) ]

\* mutant: the extrapolated position is not held at the track's duration
getPlaybackSyncUnclamped(room, currentTime) ==
  LET timeDiff == currentTime - room.playbackState.timestamp
      calculatedPosition ==
        IF room.playbackState.isPlaying /\ room.currentTrack.kind = "object"
        THEN room.playbackState.position + timeDiff
        ELSE room.playbackState.position
  IN [ isPlaying |-> room.playbackState.isPlaying,
       position |-> room.playbackState.position,
       timestamp |-> room.playbackState.timestamp,
       trackId |-> room.playbackState.trackId,
       calculatedPosition |-> calculatedPosition,
       serverTimestamp |-> currentTime ]

getPlaybackSync(room, currentTime) ==
  LET timeDiff == currentTime - room.playbackState.timestamp
      calculatedPosition ==
        IF room.playbackState.isPlaying /\ room.currentTrack.kind = "object"
        THEN Min(room.playbackState.position + timeDiff, room.currentTrack.duration)
        ELSE room.playbackState.position
  IN [ isPlaying |-> room.playbackState.isPlaying,
       position |-> room.playbackState.position,
       timestamp |-> room.playbackState.timestamp,
       trackId |-> room.playbackState.trackId,
       calculatedPosition |-> calculatedPosition,
       serverTimestamp |-> currentTime ]

\* --------------------------------------------------------- validation ----
validateRoomData(data) ==
  /\ data.kind = "object"
  /\ Len(data.userName) >= 1
  /\ Len(data.userName) <= MaxNameLen

validateJoinData(data) ==
  /\ data.kind = "object"
  /\ Len(data.roomId) >= 1
  /\ Len(data.userName) >= 1
  /\ Len(data.userName) <= MaxNameLen
  /\ Len(data.roomId) = CodeLen

validateMessage(data) ==
  /\ data.kind = "object"
  /\ Len(data.message) >= 1
  /\ Len(data.message) <= MaxMessageLen

\* ----------------------------------------------------------- emitting ----
\* sockets in the socket.io room roomId
InRoom(sr, roomId) == { d \in DOMAIN sr : roomId \in sr[d] }

\* mutant: every event goes to every connection
EmitToAll(ev, to, payload) == [ev |-> ev, to |-> Conns, payload |-> payload]

Emit(ev, to, payload) == [ev |-> ev, to |-> to, payload |-> payload]

\* mutant: the session recorded for a connection names no room
SessionWithoutRoom(c, userName, roomId, t) ==
  [userId |-> c, userName |-> userName, roomId |-> << >>, joinedAt |-> t, lastPing |-> t]

Session(c, userName, roomId, t) ==
  [userId |-> c, userName |-> userName, roomId |-> roomId, joinedAt |-> t, lastPing |-> t]

\* no room: the room id of an event that resolved to none
NoRoom == << >>

\* the event a handler processed, the room id it resolved and the branch of
\* the handler that ran
Event(type, c, roomId, branch) ==
  [type |-> type, socket |-> c, roomId |-> roomId, branch |-> branch]

\* a handler runs for a connected socket; a behaviour processes at most
\* budget events
Handled(c, budget) ==
  /\ steps < budget
  /\ c \in sockets
  /\ steps' = steps + 1
  /\ UNCHANGED clientVars

\* -------------------------------------------------------------- Init  ----
\* ------------------------------------------------------------- client ----
\* the socket whose web client is modelled
ClientSocket == 2

\* the client's id in the users table (currentUser.id): a database id,
\* which is no socket id
ClientUserId == 0 - ClientSocket

\* null as the value of a client state or of a query result
NullValue == [kind |-> "null"]

\* the YouTubePlayer component mounted with a track, paused at 0, before the
\* IFrame API has loaded: no player yet, nothing commanded (times are in
\* milliseconds: getCurrentTime() * 1000 and the position / 1000 of seekTo)
PlayerIdle ==
  [ api |-> FALSE, ref |-> "null", isPlaying |-> FALSE, position |-> 0,
    time |-> 0, playing |-> FALSE, seen |-> 0, commands |-> << >> ]

\* the App before any room event: no current room, Room component not
\* mounted, no handleRoomJoined in progress; nothing in flight, no row saved
ClientIdle ==
  /\ client = [ currentRoom |-> NullValue, joining |-> NullValue, mounted |-> FALSE,
                currentTrack |-> NullTrack, isPlaying |-> FALSE, position |-> 0 ]
  /\ inbox = << >>
  /\ delivered = 0
  /\ database = NullValue
  /\ player = PlayerIdle

\* the server with NumConns sockets connected (each connection started its
\* heartbeat) and no event processed yet
Init ==
  /\ rooms = << >>
  /\ userSessions = << >>
  /\ heartbeats = Conns
  /\ sockets = Conns
  /\ sockRooms = [c \in Conns |-> {}]
  /\ now = 0
  /\ emitted = << >>
  /\ lastEvent = Event("none", 0, NoRoom, "none")
  /\ steps = 0
  /\ ClientIdle

\* ----------------------------------------------------------- handlers ----
Tick ==
  /\ now < MaxTime
  /\ now' = now + 1
  /\ UNCHANGED <<rooms, userSessions, heartbeats, sockets, sockRooms, emitted, lastEvent, steps>>
  /\ UNCHANGED clientVars

\* more than RoomTimeout passes with no event
DayPasses ==
  /\ now < MaxDays * (RoomTimeout + 1)
  /\ now' = now + RoomTimeout + 1
  /\ UNCHANGED <<rooms, userSessions, heartbeats, sockets, sockRooms, emitted, lastEvent, steps>>
  /\ UNCHANGED clientVars

Pong(c, budget) ==
  /\ Handled(c, budget)
  /\ IF c \in DOMAIN userSessions
     THEN /\ userSessions' = [userSessions EXCEPT ![c].lastPing = now]
          /\ lastEvent' = Event("pong", c, userSessions[c].roomId, "ok")
     ELSE /\ UNCHANGED userSessions
          /\ lastEvent' = Event("pong", c, NoRoom, "no-session")
  /\ emitted' = << >>
  /\ UNCHANGED <<rooms, heartbeats, sockets, sockRooms, now>>

CreateRoom(c, data, rnd, budget) ==
  /\ Handled(c, budget)
  /\ IF ~validateRoomData(data)
     THEN /\ emitted' = <<Emit("room-error", {c}, "Invalid room data")>>
          /\ lastEvent' = Event("create-room", c, NoRoom, "invalid")
          /\ UNCHANGED <<rooms, userSessions, sockRooms>>
     ELSE LET userName == sanitizeString(data.userName)
              roomId == generateCode(rnd)
              room == addUser(Room(roomId, c, userName, now), c, userName, c, now)
              user == MapGet(room.users, c)
          IN /\ rooms' = With(rooms, roomId, room)
             /\ userSessions' = With(userSessions, c, Session(c, userName, roomId, now))
             /\ sockRooms' = [sockRooms EXCEPT ![c] = @ \cup {roomId}]
             /\ emitted' = <<Emit("room-created", {c},
                                  [success |-> TRUE, roomId |-> roomId,
                                   room |-> getCurrentState(room), user |-> user])>>
             /\ lastEvent' = Event("create-room", c, roomId, "ok")
  /\ UNCHANGED <<heartbeats, sockets, now>>

\* mutant: the capacity check lets an eleventh member in
roomIsFullOffByOne(room) == Len(room.users) > MaxMembers

\* room.users.size >= 10
roomIsFull(room) == Len(room.users) >= MaxMembers

JoinRoom(c, data, budget) ==
  /\ Handled(c, budget)
  /\ IF ~validateJoinData(data)
     THEN /\ emitted' = <<Emit("room-error", {c}, "Invalid join data")>>
          /\ lastEvent' = Event("join-room", c, NoRoom, "invalid")
          /\ UNCHANGED <<rooms, userSessions, sockRooms>>
     ELSE LET roomId == toUpperCase(data.roomId)
              userName == sanitizeString(data.userName)
          IN IF roomId \notin DOMAIN rooms
             THEN /\ emitted' = <<Emit("room-error", {c}, "Room not found")>>
                  /\ lastEvent' = Event("join-room", c, roomId, "not-found")
                  /\ UNCHANGED <<rooms, userSessions, sockRooms>>
             ELSE IF roomIsFull(rooms[roomId])
             THEN /\ emitted' = <<Emit("room-error", {c}, "Room is full")>>
                  /\ lastEvent' = Event("join-room", c, roomId, "full")
                  /\ UNCHANGED <<rooms, userSessions, sockRooms>>
             ELSE LET room == addUser(rooms[roomId], c, userName, c, now)
                      user == MapGet(room.users, c)
                      sr == [sockRooms EXCEPT ![c] = @ \cup {roomId}]
                      roomState == getCurrentState(room)
                  IN /\ rooms' = [rooms EXCEPT ![roomId] = room]
                     /\ userSessions' = With(userSessions, c, Session(c, userName, roomId, now))
                     /\ sockRooms' = sr
                     /\ emitted' =
                          << Emit("room-joined", {c}, [room |-> roomState, user |-> user]),
                             Emit("user-joined", InRoom(sr, roomId) \ {c},
                                  [user |-> user, room |-> roomState]),
                             Emit("playback-sync", {c}, getPlaybackSync(room, now)) >>
                     /\ lastEvent' = Event("join-room", c, roomId, "ok")
  /\ UNCHANGED <<heartbeats, sockets, now>>

\* Array.from(room.typingUsers).map(id => room.users.get(id)?.name).filter(Boolean)
typingNames(room) ==
  { MapGet(room.users, id).name :
      id \in { t \in room.typingUsers : MapHas(room.users, t) /\ MapGet(room.users, t).name # <<>> } }

SendMessage(c, data, budget) ==
  /\ Handled(c, budget)
  /\ IF ~validateMessage(data)
     THEN /\ emitted' = <<Emit("message-error", {c}, "Invalid message")>>
          /\ lastEvent' = Event("send-message", c, NoRoom, "invalid")
          /\ UNCHANGED rooms
     ELSE IF c \notin DOMAIN userSessions
     THEN /\ emitted' = <<Emit("message-error", {c}, "Not in a room")>>
          /\ lastEvent' = Event("send-message", c, NoRoom, "no-session")
          /\ UNCHANGED rooms
     ELSE LET session == userSessions[c] IN
          IF session.roomId \notin DOMAIN rooms
          THEN /\ emitted' = <<Emit("message-error", {c}, "Room not found")>>
               /\ lastEvent' = Event("send-message", c, session.roomId, "not-found")
               /\ UNCHANGED rooms
          ELSE IF ~MapHas(rooms[session.roomId].users, c)
          THEN /\ emitted' = <<Emit("message-error", {c}, "User not found in room")>>
               /\ lastEvent' = Event("send-message", c, session.roomId, "not-member")
               /\ UNCHANGED rooms
          ELSE LET user == MapGet(rooms[session.roomId].users, c)
                   r1 == setUserTyping(rooms[session.roomId], c, FALSE)
                   r2 == addMessage(r1, [userId |-> c, userName |-> user.name,
                                         message |-> sanitizeString(data.message),
                                         type |-> IF data.type = UNDEF THEN "text" ELSE data.type],
                                    now)
                   message == r2.messages[Len(r2.messages)]
               IN /\ rooms' = [rooms EXCEPT ![session.roomId] = r2]
                  /\ emitted' =
                       << Emit("user-typing", InRoom(sockRooms, session.roomId),
                               [typingUsers |-> typingNames(r1)]),
                          Emit("new-message", InRoom(sockRooms, session.roomId),
                               [message |-> message, roomId |-> session.roomId]) >>
                  /\ lastEvent' = Event("send-message", c, session.roomId, "ok")
  /\ UNCHANGED <<userSessions, heartbeats, sockets, sockRooms, now>>

\* typing-start (isTyping) and typing-stop (~isTyping)
Typing(c, isTyping, budget) ==
  LET type == IF isTyping THEN "typing-start" ELSE "typing-stop" IN
  /\ Handled(c, budget)
  /\ IF c \in DOMAIN userSessions /\ userSessions[c].roomId \in DOMAIN rooms
     THEN LET roomId == userSessions[c].roomId
              room == setUserTyping(rooms[roomId], c, isTyping)
          IN /\ rooms' = [rooms EXCEPT ![roomId] = room]
             /\ emitted' = <<Emit("user-typing", InRoom(sockRooms, roomId) \ {c},
                                  [typingUsers |-> typingNames(room)])>>
             /\ lastEvent' = Event(type, c, roomId, "ok")
     ELSE /\ emitted' = << >>
          /\ lastEvent' = Event(type, c, NoRoom, "no-room")
          /\ UNCHANGED rooms
  /\ UNCHANGED <<userSessions, heartbeats, sockets, sockRooms, now>>

TypingStart(c, budget) == Typing(c, TRUE, budget)

TypingStop(c, budget) == Typing(c, FALSE, budget)

\* mutant: track-update checks only that the room exists
trackUpdateDeniedNoHostCheck(c) ==
  userSessions[c].roomId \notin DOMAIN rooms

\* !room || room.hostId !== socket.id, in track-update
trackUpdateDenied(c) ==
  \/ userSessions[c].roomId \notin DOMAIN rooms
  \/ rooms[userSessions[c].roomId].hostId # c

TrackUpdate(c, data, budget) ==
  /\ Handled(c, budget)
  /\ IF c \notin DOMAIN userSessions
     THEN /\ emitted' = << >>
          /\ lastEvent' = Event("track-update", c, NoRoom, "no-session")
          /\ UNCHANGED rooms
     ELSE LET session == userSessions[c] IN
          IF trackUpdateDenied(c)
          THEN /\ emitted' = <<Emit("action-error", {c}, "Only host can change tracks")>>
               /\ lastEvent' = Event("track-update", c, session.roomId, "denied")
               /\ UNCHANGED rooms
          ELSE IF data.kind # "object"
          \* data.track throws a TypeError, caught by the handler
          THEN /\ emitted' = <<Emit("action-error", {c}, "Failed to update track")>>
               /\ lastEvent' = Event("track-update", c, session.roomId, "threw")
               /\ UNCHANGED rooms
          ELSE /\ rooms' = [rooms EXCEPT ![session.roomId] = updateTrack(@, data.track, now)]
               /\ emitted' = <<Emit("track-changed", InRoom(sockRooms, session.roomId) \ {c},
                                    [track |-> data.track, timestamp |-> now,
                                     changedBy |-> session.userName])>>
               /\ lastEvent' = Event("track-update", c, session.roomId, "ok")
  /\ UNCHANGED <<userSessions, heartbeats, sockets, sockRooms, now>>

\* mutant: playback-state checks only that the room exists
playbackStateDeniedNoHostCheck(c) ==
  userSessions[c].roomId \notin DOMAIN rooms

\* !room || room.hostId !== socket.id, in playback-state
playbackStateDenied(c) ==
  \/ userSessions[c].roomId \notin DOMAIN rooms
  \/ rooms[userSessions[c].roomId].hostId # c

PlaybackState(c, data, budget) ==
  /\ Handled(c, budget)
  /\ IF c \notin DOMAIN userSessions
     THEN /\ emitted' = << >>
          /\ lastEvent' = Event("playback-state", c, NoRoom, "no-session")
          /\ UNCHANGED rooms
     ELSE LET session == userSessions[c] IN
          IF playbackStateDenied(c)
          THEN /\ emitted' = <<Emit("action-error", {c}, "Only host can control playback")>>
               /\ lastEvent' = Event("playback-state", c, session.roomId, "denied")
               /\ UNCHANGED rooms
          ELSE IF data.kind # "object"
          \* data.isPlaying throws a TypeError; the catch block only logs
          THEN /\ emitted' = << >>
               /\ lastEvent' = Event("playback-state", c, session.roomId, "threw")
               /\ UNCHANGED rooms
          ELSE LET room == updatePlaybackState(rooms[session.roomId], data.isPlaying,
                                               data.position, now)
               IN /\ rooms' = [rooms EXCEPT ![session.roomId] = room]
                  /\ emitted' = <<Emit("playback-sync", InRoom(sockRooms, session.roomId) \ {c},
                                       [isPlaying |-> data.isPlaying,
                                        position |-> data.position,
                                        timestamp |-> now,
                                        trackId |-> IF room.currentTrack.kind = "object"
                                                    THEN room.currentTrack.id ELSE UNDEF,
                                        controlledBy |-> session.userName])>>
                  /\ lastEvent' = Event("playback-state", c, session.roomId, "ok")
  /\ UNCHANGED <<userSessions, heartbeats, sockets, sockRooms, now>>

RequestSync(c, budget) ==
  /\ Handled(c, budget)
  /\ IF c \in DOMAIN userSessions /\ userSessions[c].roomId \in DOMAIN rooms
     THEN /\ emitted' = <<Emit("playback-sync", {c},
                               getPlaybackSync(rooms[userSessions[c].roomId], now))>>
          /\ lastEvent' = Event("request-sync", c, userSessions[c].roomId, "ok")
     ELSE /\ emitted' = << >>
          /\ lastEvent' = Event("request-sync", c, NoRoom, "no-room")
  /\ UNCHANGED <<rooms, userSessions, heartbeats, sockets, sockRooms, now>>

\* mutant: room-info carries the room as it was before anybody typed
GetRoomInfoStale(c, budget) ==
  /\ Handled(c, budget)
  /\ IF c \in DOMAIN userSessions /\ userSessions[c].roomId \in DOMAIN rooms
     THEN /\ emitted' = <<Emit("room-info", {c},
                               getCurrentState([rooms[userSessions[c].roomId]
                                                  EXCEPT !.typingUsers = {}]))>>
          /\ lastEvent' = Event("get-room-info", c, userSessions[c].roomId, "ok")
     ELSE /\ emitted' = << >>
          /\ lastEvent' = Event("get-room-info", c, NoRoom, "no-room")
  /\ UNCHANGED <<rooms, userSessions, heartbeats, sockets, sockRooms, now>>

GetRoomInfo(c, budget) ==
  /\ Handled(c, budget)
  /\ IF c \in DOMAIN userSessions /\ userSessions[c].roomId \in DOMAIN rooms
     THEN /\ emitted' = <<Emit("room-info", {c},
                               getCurrentState(rooms[userSessions[c].roomId]))>>
          /\ lastEvent' = Event("get-room-info", c, userSessions[c].roomId, "ok")
     ELSE /\ emitted' = << >>
          /\ lastEvent' = Event("get-room-info", c, NoRoom, "no-room")
  /\ UNCHANGED <<rooms, userSessions, heartbeats, sockets, sockRooms, now>>

UnknownName == <<"U", "n", "k", "n", "o", "w", "n">>

\* mutant: the host is removed and nobody is made host
roomAfterLeaveNoTransfer(room, c) == removeUser(room, c)

\* the room after the disconnect handler removed socket c from it and, when
\* c was its host and members remain, made the first remaining user the host
roomAfterLeave(room, c) ==
  LET r1 == removeUser(room, c) IN
  IF Len(r1.users) # 0 /\ r1.hostId = c
  THEN [r1 EXCEPT !.hostId = r1.users[1].id, !.hostName = r1.users[1].name]
  ELSE r1

\* mutant: a room left empty stays in the registry
roomsAfterLeaveKeepEmpty(registry, roomId, c) ==
  [registry EXCEPT ![roomId] = roomAfterLeave(registry[roomId], c)]

\* the registry after the disconnect handler: a room left empty is deleted
roomsAfterLeave(registry, roomId, c) ==
  LET room == roomAfterLeave(registry[roomId], c) IN
  IF Len(room.users) = 0
  THEN Without(registry, roomId)
  ELSE [registry EXCEPT ![roomId] = room]

\* the socket has left its socket.io rooms when 'disconnect' fires
Disconnect(c, budget) ==
  /\ Handled(c, budget)
  /\ sockets' = sockets \ {c}
  /\ sockRooms' = [sockRooms EXCEPT ![c] = {}]
  /\ heartbeats' = heartbeats \ {c}
  /\ IF c \notin DOMAIN userSessions
     THEN /\ emitted' = << >>
          /\ lastEvent' = Event("disconnect", c, NoRoom, "no-session")
          /\ UNCHANGED <<rooms, userSessions>>
     ELSE LET session == userSessions[c]
              roomId == session.roomId
              sr == [sockRooms EXCEPT ![c] = {}]
          IN /\ userSessions' = Without(userSessions, c)
             /\ IF roomId \notin DOMAIN rooms
                THEN /\ emitted' = << >>
                     /\ lastEvent' = Event("disconnect", c, roomId, "not-found")
                     /\ UNCHANGED rooms
                ELSE LET userName == IF MapHas(rooms[roomId].users, c)
                                        /\ MapGet(rooms[roomId].users, c).name # <<>>
                                     THEN MapGet(rooms[roomId].users, c).name
                                     ELSE UnknownName
                         room == roomAfterLeave(rooms[roomId], c)
                         userLeft == Emit("user-left", InRoom(sr, roomId) \ {c},
                                          [userId |-> c, userName |-> userName,
                                           room |-> getCurrentState(room)])
                     IN /\ rooms' = roomsAfterLeave(rooms, roomId, c)
                        /\ IF Len(room.users) = 0
                           THEN /\ emitted' = << >>
                                /\ lastEvent' = Event("disconnect", c, roomId, "room-deleted")
                           ELSE IF rooms[roomId].hostId = c
                           THEN /\ emitted' =
                                     << Emit("host-changed", InRoom(sr, roomId),
                                             [newHostId |-> room.hostId,
                                              newHostName |-> room.hostName,
                                              room |-> getCurrentState(room)]),
                                        userLeft >>
                                /\ lastEvent' = Event("disconnect", c, roomId, "host-changed")
                           ELSE /\ emitted' = <<userLeft>>
                                /\ lastEvent' = Event("disconnect", c, roomId, "left")
  /\ UNCHANGED now

\* mutant: the heartbeat drops the binding of a connection whose last pong
\* is in the past
HeartbeatEvicts(c, budget) ==
  /\ steps < budget
  /\ steps' = steps + 1
  /\ c \in heartbeats
  /\ IF c \in sockets
     THEN /\ emitted' = <<Emit("ping", {c}, NoRoom)>>
          /\ UNCHANGED heartbeats
     ELSE /\ emitted' = << >>
          /\ heartbeats' = heartbeats \ {c}
  /\ lastEvent' = Event("heartbeat", c, NoRoom, "ok")
  /\ userSessions' = IF c \in DOMAIN userSessions /\ userSessions[c].lastPing < now
                     THEN Without(userSessions, c)
                     ELSE userSessions
  /\ UNCHANGED <<rooms, sockets, sockRooms, now>>
  /\ UNCHANGED clientVars

\* the heartbeat interval of socket c fires
Heartbeat(c, budget) ==
  /\ steps < budget
  /\ steps' = steps + 1
  /\ c \in heartbeats
  /\ IF c \in sockets
     THEN /\ emitted' = <<Emit("ping", {c}, NoRoom)>>
          /\ UNCHANGED heartbeats
     ELSE /\ emitted' = << >>
          /\ heartbeats' = heartbeats \ {c}
  /\ lastEvent' = Event("heartbeat", c, NoRoom, "ok")
  /\ UNCHANGED <<rooms, userSessions, sockets, sockRooms, now>>
  /\ UNCHANGED clientVars

\* mutant: the sweep removes every room idle for longer than RoomTimeout,
\* with or without members
CleanupIdleRooms(budget) ==
  /\ steps < budget
  /\ steps' = steps + 1
  /\ rooms' = [k \in { r \in DOMAIN rooms :
                         ~(now - rooms[r].lastUpdateTime > RoomTimeout) } |-> rooms[k]]
  /\ emitted' = << >>
  /\ lastEvent' = Event("cleanup", 0, NoRoom, "ok")
  /\ UNCHANGED <<userSessions, heartbeats, sockets, sockRooms, now>>
  /\ UNCHANGED clientVars

\* the hourly sweep of inactive rooms
Cleanup(budget) ==
  /\ steps < budget
  /\ steps' = steps + 1
  /\ rooms' = [k \in { r \in DOMAIN rooms :
                         ~(now - rooms[r].lastUpdateTime > RoomTimeout
                           /\ Len(rooms[r].users) = 0) } |-> rooms[k]]
  /\ emitted' = << >>
  /\ lastEvent' = Event("cleanup", 0, NoRoom, "ok")
  /\ UNCHANGED <<userSessions, heartbeats, sockets, sockRooms, now>>
  /\ UNCHANGED clientVars

\* ---------------------------------------------------- client handlers ----
serverVars == <<rooms, userSessions, heartbeats, sockets, sockRooms, now, emitted, lastEvent, steps>>

\* DatabaseService.savePlaybackState: the row upserted for the room (a
\* track_duration that is undefined is held as 0, the value getPlaybackState
\* reads it back as: data.track_duration || 0)
savePlaybackState(track, isPlaying, position) ==
  [ kind |-> "object",
    track_id |-> IF track.kind = "object" THEN track.id ELSE UNDEF,
    track_duration |-> IF track.kind = "object" THEN track.duration ELSE 0,
    is_playing |-> isPlaying,
    position |-> position ]

\* DatabaseService.getPlaybackState: null when the room has no row
getPlaybackState(row) ==
  IF row.kind # "object" THEN NullValue
  ELSE [ kind |-> "object",
         track |-> IF row.track_id # UNDEF /\ row.track_id # ""
                   THEN [kind |-> "object", id |-> row.track_id,
                         duration |-> row.track_duration]
                   ELSE NullTrack,
         isPlaying |-> row.is_playing,
         position |-> row.position ]

\* the Room component's first render: useState(room.currentTrack),
\* useState(room.isPlaying), useState(room.position || 0); a mounted
\* component keeps its state when the room prop changes
mountRoom(state, room) ==
  IF state.mounted THEN state
  ELSE [state EXCEPT !.mounted = TRUE,
                     !.currentTrack = room.currentTrack,
                     !.isPlaying = room.isPlaying,
                     !.position = room.position]

\* const isHost = currentUserId === room.hostId
isHost(room) == ClientUserId = room.hostId

\* Room.tsx handlePlaybackSync, received when the client's Date.now() is clientTime
handlePlaybackSync(state, data, clientTime) ==
  LET latency == clientTime - data.timestamp
      adjustedPosition == IF data.isPlaying THEN data.position + latency ELSE data.position
  IN [state EXCEPT !.isPlaying = data.isPlaying, !.position = adjustedPosition]

\* socket.io delivers the events the last handler emitted to the client's
\* socket, in the order they were emitted
Deliver ==
  /\ delivered # steps
  /\ inbox' = inbox \o SelectSeq(emitted, LAMBDA e : ClientSocket \in e.to)
  /\ delivered' = steps
  /\ UNCHANGED <<serverVars, client, database, player>>

\* App.tsx handleRoomJoined up to its first await
handleRoomJoined ==
  /\ inbox # << >>
  /\ Head(inbox).ev = "room-joined"
  /\ inbox' = Tail(inbox)
  /\ client' = [client EXCEPT !.joining = [kind |-> "object", data |-> Head(inbox).payload]]
  /\ UNCHANGED <<serverVars, delivered, database, player>>

\* App.tsx handleRoomJoined after its awaits: setCurrentRoom with the track,
\* isPlaying and position of the playback_state row, and the render that
\* mounts the Room component
setCurrentRoom ==
  /\ client.joining.kind = "object"
  /\ LET data == client.joining.data
         playbackState == getPlaybackState(database)
         has == playbackState.kind = "object"
         room == [data.room EXCEPT
                    !.currentTrack = IF has THEN playbackState.track ELSE NullTrack,
                    !.isPlaying = IF has THEN playbackState.isPlaying ELSE FALSE,
                    !.position = IF has THEN playbackState.position ELSE 0]
     IN client' = mountRoom([client EXCEPT !.joining = NullValue,
                                           !.currentRoom = [kind |-> "object", room |-> room]],
                            room)
  /\ UNCHANGED <<serverVars, inbox, delivered, database, player>>

\* a playback-sync event reaches the client: Room.tsx handlePlaybackSync
\* when the Room component is mounted, App.tsx handlePlaybackSync (which
\* saves the row when there is a current room)
PlaybackSyncReceived(clientTime) ==
  /\ inbox # << >>
  /\ Head(inbox).ev = "playback-sync"
  /\ inbox' = Tail(inbox)
  /\ client' = IF client.mounted
               THEN handlePlaybackSync(client, Head(inbox).payload, clientTime)
               ELSE client
  /\ database' = IF client.currentRoom.kind = "object"
                 THEN savePlaybackState(client.currentRoom.room.currentTrack,
                                        Head(inbox).payload.isPlaying,
                                        Head(inbox).payload.position)
                 ELSE database
  /\ UNCHANGED <<serverVars, delivered, player>>

\* a track-changed event reaches the client: Room.tsx handleTrackChanged
\* (setCurrentTrack) when mounted, App.tsx handleTrackChanged (saves the
\* track with isPlaying false and position 0 when there is a current room)
TrackChangedReceived ==
  /\ inbox # << >>
  /\ Head(inbox).ev = "track-changed"
  /\ inbox' = Tail(inbox)
  /\ client' = IF client.mounted
               THEN [client EXCEPT !.currentTrack = Head(inbox).payload.track]
               ELSE client
  /\ database' = IF client.currentRoom.kind = "object"
                 THEN savePlaybackState(Head(inbox).payload.track, FALSE, 0)
                 ELSE database
  /\ UNCHANGED <<serverVars, delivered, player>>

\* the one-second interval of the Room component's auto-sync effect
updatePosition ==
  /\ client.mounted
  /\ client.isPlaying
  /\ client.currentTrack.kind = "object"
  /\ ~isHost(client.currentRoom.room)
  /\ client' = [client EXCEPT !.position = Min(@ + 1000, client.currentTrack.duration)]
  /\ UNCHANGED <<serverVars, inbox, delivered, database, player>>

\* ------------------------------------------------------ YouTubePlayer ----
Abs(x) == IF x < 0 THEN 0 - x ELSE x

\* the effect that initializes the player: once the IFrame API is ready it
\* runs in every render its callback props changed in (MusicPlayer passes new
\* functions in each of its renders), destroying the player and making a new one
initializePlayer(p) ==
  IF p.api THEN [p EXCEPT !.ref = "fresh", !.time = 0, !.playing = FALSE] ELSE p

\* whether a call on playerRef.current goes through: an instance that has
\* not fired onReady yet may not have its methods (the call throws and the
\* effect's catch logs it)
callable(p, works) == p.ref = "ready" \/ (p.ref = "fresh" /\ works)

\* the play/pause effect
playPause(p, isPlaying, works) ==
  IF p.ref = "null" \/ ~callable(p, works) THEN p
  ELSE [p EXCEPT !.playing = isPlaying,
                 !.commands = Append(@, [cmd |-> IF isPlaying THEN "playVideo" ELSE "pauseVideo",
                                         arg |-> 0])]

\* the seek effect
seek(p, position, works) ==
  IF p.ref = "null" \/ ~callable(p, works) THEN p
  ELSE LET currentTime == p.time
           timeDiff == Abs(currentTime - position)
       IN IF timeDiff > SeekThreshold
          THEN [p EXCEPT !.seen = currentTime, !.time = position,
                         !.commands = Append(@, [cmd |-> "seekTo", arg |-> position])]
          ELSE [p EXCEPT !.seen = currentTime]

\* window.onYouTubeIframeAPIReady: setIsAPIReady(true) and the render whose
\* effect creates the player
apiReady ==
  /\ ~player.api
  /\ player' = initializePlayer([player EXCEPT !.api = TRUE, !.commands = << >>])
  /\ UNCHANGED <<serverVars, client, inbox, delivered, database>>

\* the player's onReady event
onReady ==
  /\ player.ref = "fresh"
  /\ player' = [player EXCEPT !.ref = "ready"]
  /\ UNCHANGED <<serverVars, client, inbox, delivered, database>>

\* MusicPlayer renders the component with other isPlaying / position props:
\* the effects whose dependencies changed run in the order they are declared
renderPlayer(isPlaying, position, works) ==
  /\ <<isPlaying, position>> # <<player.isPlaying, player.position>>
  /\ LET p1 == initializePlayer([player EXCEPT !.commands = << >>])
         p2 == IF isPlaying # player.isPlaying THEN playPause(p1, isPlaying, works) ELSE p1
         p3 == IF position # player.position THEN seek(p2, position, works) ELSE p2
     IN player' = [p3 EXCEPT !.isPlaying = isPlaying, !.position = position]
  /\ UNCHANGED <<serverVars, client, inbox, delivered, database>>

\* a second of the video plays
playerAdvances ==
  /\ player.ref # "null"
  /\ player.playing
  /\ player.time < MaxPlayerTime
  /\ player' = [player EXCEPT !.time = @ + 1000]
  /\ UNCHANGED <<serverVars, client, inbox, delivered, database>>

\* ----------------------------------------------------- specifications ----
\* every socket event, MaxSteps events in a behaviour
Next ==
  \/ Tick
  \/ \E c \in Conns : Pong(c, MaxSteps)
  \/ \E c \in Conns, data \in CreatePayloads, rnd \in RandomStrings :
         CreateRoom(c, data, rnd, MaxSteps)
  \/ \E c \in Conns, data \in JoinPayloads : JoinRoom(c, data, MaxSteps)
  \/ \E c \in Conns, data \in MessagePayloads : SendMessage(c, data, MaxSteps)
  \/ \E c \in Conns : TypingStart(c, MaxSteps)
  \/ \E c \in Conns : TypingStop(c, MaxSteps)
  \/ \E c \in Conns, data \in TrackPayloads : TrackUpdate(c, data, MaxSteps)
  \/ \E c \in Conns, data \in PlaybackPayloads : PlaybackState(c, data, MaxSteps)
  \/ \E c \in Conns : RequestSync(c, MaxSteps)
  \/ \E c \in Conns : GetRoomInfo(c, MaxSteps)
  \/ \E c \in Conns : Disconnect(c, MaxSteps)
  \/ \E c \in Conns : Heartbeat(c, MaxSteps)
  \/ Cleanup(MaxSteps)

Spec == Init /\ [][Next]_vars

\* create-room, join-room and disconnect only, MaxMemberSteps events in a
\* behaviour
MemberNext ==
  \/ Tick
  \/ \E c \in Conns, data \in MemberCreatePayloads, rnd \in MemberRandomStrings :
         CreateRoom(c, data, rnd, MaxMemberSteps)
  \/ \E c \in Conns, data \in MemberJoinPayloads : JoinRoom(c, data, MaxMemberSteps)
  \/ \E c \in Conns : Disconnect(c, MaxMemberSteps)

MemberSpec == Init /\ [][MemberNext]_vars


\* a room one member short of its capacity: socket 1 created it under
\* CapCode, sockets 2..MaxMembers-1 joined it in turn, all at time 0 and
\* under the name "a"; CapExtra more sockets than a room holds are connected
CapConns == 1..(MaxMembers + CapExtra)

CapCode == generateCode(CHOOSE r \in MemberRandomStrings : r[3] = Lower[1])

RECURSIVE CapRoom(_)
CapRoom(n) ==
  IF n = 1
  THEN addUser(Room(CapCode, 1, <<"a">>, 0), 1, <<"a">>, 1, 0)
  ELSE addUser(CapRoom(n - 1), n, <<"a">>, n, 0)

CapJoinPayloads == { d \in MemberJoinPayloads : d.roomId = CapCode }

CapInit ==
  LET last == MaxMembers - 1
      room == CapRoom(last)
      sr == [c \in CapConns |-> IF c <= last THEN {CapCode} ELSE {}]
  IN /\ rooms = (CapCode :> room)
     /\ userSessions = [c \in 1..last |-> Session(c, <<"a">>, CapCode, 0)]
     /\ heartbeats = CapConns
     /\ sockets = CapConns
     /\ sockRooms = sr
     /\ now = 0
     /\ emitted =
          << Emit("room-joined", {last},
                  [room |-> getCurrentState(room), user |-> MapGet(room.users, last)]),
             Emit("user-joined", InRoom(sr, CapCode) \ {last},
                  [user |-> MapGet(room.users, last), room |-> getCurrentState(room)]),
             Emit("playback-sync", {last}, getPlaybackSync(room, 0)) >>
     /\ lastEvent = Event("join-room", last, CapCode, "ok")
     /\ steps = 0
     /\ ClientIdle

CapNext ==
  \/ Tick
  \/ \E c \in CapConns, data \in CapJoinPayloads : JoinRoom(c, data, CapSteps)
  \/ \E c \in CapConns : Disconnect(c, CapSteps)

CapacitySpec == CapInit /\ [][CapNext]_vars

\* socket 1 has created a room under CapCode at time 0 and then sends
\* MaxMessages + ExtraMessages valid messages while the clock advances
MsgSteps == MaxMessages + ExtraMessages

MsgPayloads == { d \in MessagePayloads : validateMessage(d) }

MsgInit ==
  LET room == addUser(Room(CapCode, 1, <<"a">>, 0), 1, <<"a">>, 1, 0) IN
  /\ rooms = (CapCode :> room)
  /\ userSessions = (1 :> Session(1, <<"a">>, CapCode, 0))
  /\ heartbeats = Conns
  /\ sockets = Conns
  /\ sockRooms = [c \in Conns |-> IF c = 1 THEN {CapCode} ELSE {}]
  /\ now = 0
  /\ emitted = <<Emit("room-created", {1},
                      [success |-> TRUE, roomId |-> CapCode,
                       room |-> getCurrentState(room), user |-> MapGet(room.users, 1)])>>
  /\ lastEvent = Event("create-room", 1, CapCode, "ok")
  /\ steps = 0
  /\ ClientIdle

MsgNext ==
  \/ Tick
  \/ \E data \in MsgPayloads : SendMessage(1, data, MsgSteps)

MessageSpec == MsgInit /\ [][MsgNext]_vars

\* socket 1 has created a room under CapCode; it sets tracks and the clock,
\* socket 2 joins, both ask for the live clock while time passes
SyncNext ==
  \/ Tick
  \/ \E data \in TrackPayloads : TrackUpdate(1, data, SyncSteps)
  \/ \E data \in PlaybackPayloads : PlaybackState(1, data, SyncSteps)
  \/ \E data \in CapJoinPayloads : JoinRoom(2, data, SyncSteps)
  \/ \E c \in {1, 2} : RequestSync(c, SyncSteps)

SyncSpec == MsgInit /\ [][SyncNext]_vars

\* socket 1 has created a room under CapCode; sockets 1 and 2 create and
\* join rooms, type, send messages and disconnect
ChatConns == {1, 2}

ChatNext ==
  \/ Tick
  \/ \E c \in ChatConns, data \in MemberCreatePayloads, rnd \in MemberRandomStrings :
         CreateRoom(c, data, rnd, ChatSteps)
  \/ \E c \in ChatConns, data \in MemberJoinPayloads : JoinRoom(c, data, ChatSteps)
  \/ \E c \in ChatConns, data \in MsgPayloads : SendMessage(c, data, ChatSteps)
  \/ \E c \in ChatConns : TypingStart(c, ChatSteps)
  \/ \E c \in ChatConns : Disconnect(c, ChatSteps)

ChatSpec == MsgInit /\ [][ChatNext]_vars

\* socket 1 has created a room under CapCode; sockets 1 and 2 create and
\* join rooms, disconnect, and ask for the live clock and the room snapshot
QueryNext ==
  \/ Tick
  \/ \E c \in ChatConns, data \in MemberCreatePayloads, rnd \in MemberRandomStrings :
         CreateRoom(c, data, rnd, QuerySteps)
  \/ \E c \in ChatConns, data \in MemberJoinPayloads : JoinRoom(c, data, QuerySteps)
  \/ \E c \in ChatConns : Disconnect(c, QuerySteps)
  \/ \E c \in ChatConns : RequestSync(c, QuerySteps)
  \/ \E c \in ChatConns : GetRoomInfo(c, QuerySteps)

QuerySpec == MsgInit /\ [][QueryNext]_vars

\* socket 1 has created a room under CapCode and sends bodies that are
\* empty, blank, padded, plain, and of the longest accepted length and beyond
LongBody(n) == [i \in 1..n |-> "x"]

BodyPayloads ==
  { [kind |-> "object", message |-> b, type |-> UNDEF] :
      b \in { <<>>, <<" ">>, <<" ", "h">>, <<"h", "i">>,
              LongBody(MaxMessageLen), LongBody(MaxMessageLen + 1) } }

BodyNext ==
  \/ Tick
  \/ \E data \in BodyPayloads : SendMessage(1, data, BodySteps)

BodySpec == MsgInit /\ [][BodyNext]_vars

\* connections create and join rooms and the sweep runs for LiveSetupSteps
\* events; after that no create-room or join-room is issued, and every
\* connection eventually disconnects (a socket closes in finite time and its
\* disconnect handler runs; the sweep is a timer that keeps firing)
LiveSteps == LiveSetupSteps + NumConns

LiveNext ==
  \/ Tick
  \/ \E c \in Conns, data \in MemberCreatePayloads, rnd \in MemberRandomStrings :
         CreateRoom(c, data, rnd, LiveSetupSteps)
  \/ \E c \in Conns, data \in MemberJoinPayloads : JoinRoom(c, data, LiveSetupSteps)
  \/ Cleanup(LiveSetupSteps)
  \/ \E c \in Conns : Disconnect(c, LiveSteps)

LiveSpec ==
  /\ Init /\ [][LiveNext]_vars
  /\ \A c \in Conns : WF_vars(Disconnect(c, LiveSteps))
  /\ WF_vars(Cleanup(LiveSetupSteps))

\* the YouTubePlayer component of a client: the API loads, the player
\* becomes ready and plays, and the props change to positions around the
\* seek threshold
PlayerPositions == {0, 1000, SeekThreshold, SeekThreshold + 1, 2 * SeekThreshold + 1}

PlayerNext ==
  \/ apiReady
  \/ onReady
  \/ \E isPlaying \in BOOLEAN, position \in PlayerPositions, works \in BOOLEAN :
         renderPlayer(isPlaying, position, works)
  \/ playerAdvances

PlayerSpec == Init /\ [][PlayerNext]_vars

\* connections create and join rooms and disconnect, days pass, and the
\* sweep runs
SweepNext ==
  \/ DayPasses
  \/ \E c \in Conns, data \in MemberCreatePayloads, rnd \in MemberRandomStrings :
         CreateRoom(c, data, rnd, SweepSteps)
  \/ \E c \in Conns, data \in MemberJoinPayloads : JoinRoom(c, data, SweepSteps)
  \/ \E c \in Conns : Disconnect(c, SweepSteps)
  \/ Cleanup(SweepSteps)

SweepSpec == Init /\ [][SweepNext]_vars

\* socket 1 has created a room under CapCode at time 0 and has sent
\* SnapBacklog messages, one short of what a snapshot carries, the i-th of i
\* characters; sockets 1 and 2 send messages, create and join rooms, ask for
\* the room snapshot and disconnect
SnapBacklog == SnapshotMessages - 1

RECURSIVE SnapRoom(_)
SnapRoom(n) ==
  IF n = 0
  THEN addUser(Room(CapCode, 1, <<"a">>, 0), 1, <<"a">>, 1, 0)
  ELSE addMessage(SnapRoom(n - 1),
                  [userId |-> 1, userName |-> <<"a">>,
                   message |-> sanitizeString(LongBody(n)), type |-> "text"], 0)

SnapInit ==
  LET room == SnapRoom(SnapBacklog)
      message == room.messages[Len(room.messages)]
  IN /\ rooms = (CapCode :> room)
     /\ userSessions = (1 :> Session(1, <<"a">>, CapCode, 0))
     /\ heartbeats = Conns
     /\ sockets = Conns
     /\ sockRooms = [c \in Conns |-> IF c = 1 THEN {CapCode} ELSE {}]
     /\ now = 0
     /\ emitted = << Emit("user-typing", {1}, [typingUsers |-> << >>]),
                     Emit("new-message", {1}, [message |-> message, roomId |-> CapCode]) >>
     /\ lastEvent = Event("send-message", 1, CapCode, "ok")
     /\ steps = 0
     /\ ClientIdle

SnapNext ==
  \/ Tick
  \/ \E c \in ChatConns, data \in MsgPayloads : SendMessage(c, data, SnapSteps)
  \/ \E c \in ChatConns, data \in MemberCreatePayloads, rnd \in MemberRandomStrings :
         CreateRoom(c, data, rnd, SnapSteps)
  \/ \E c \in ChatConns, data \in CapJoinPayloads : JoinRoom(c, data, SnapSteps)
  \/ \E c \in ChatConns : Disconnect(c, SnapSteps)
  \/ \E c \in ChatConns : GetRoomInfo(c, SnapSteps)

SnapSpec == SnapInit /\ [][SnapNext]_vars

\* socket 1 has created a room under CapCode and is its host; it sets
\* tracks and the clock, socket ClientSocket joins, and its web client handles the
\* events delivered to it; the client's clock agrees with the server's
ClientTrackPayloads ==
  { d \in TrackPayloads : d.kind = "object" /\ d.track.kind = "object" /\ d.track.id # UNDEF }

ClientPlaybackPayloads == { d \in PlaybackPayloads : d.kind = "object" }

ClientNext ==
  \/ Tick
  \/ \E data \in ClientTrackPayloads : delivered = steps /\ TrackUpdate(1, data, ClientSteps)
  \/ \E data \in ClientPlaybackPayloads :
         delivered = steps /\ PlaybackState(1, data, ClientSteps)
  \/ \E data \in CapJoinPayloads :
         delivered = steps /\ JoinRoom(ClientSocket, data, ClientSteps)
  \/ Deliver
  \/ handleRoomJoined
  \/ setCurrentRoom
  \/ PlaybackSyncReceived(now)
  \/ TrackChangedReceived
  \/ updatePosition

ClientSpec == MsgInit /\ [][ClientNext]_vars

\* the same, with the client's clock up to MaxSkew behind the server's
SkewNext ==
  \/ Tick
  \/ \E data \in ClientTrackPayloads : delivered = steps /\ TrackUpdate(1, data, ClientSteps)
  \/ \E data \in ClientPlaybackPayloads :
         delivered = steps /\ PlaybackState(1, data, ClientSteps)
  \/ \E data \in CapJoinPayloads :
         delivered = steps /\ JoinRoom(ClientSocket, data, ClientSteps)
  \/ Deliver
  \/ handleRoomJoined
  \/ setCurrentRoom
  \/ \E clientTime \in (now - MaxSkew)..now : PlaybackSyncReceived(clientTime)
  \/ TrackChangedReceived
  \/ updatePosition

SkewSpec == MsgInit /\ [][SkewNext]_vars

\* ------------------------------------------------------------- claims ----
\* this step processed a socket event (lastEvent' describes it)
Processed(type) == steps' = steps + 1 /\ lastEvent'.type = type

\* C1: in every reachable state every room in the registry has exactly one
\* host: exactly one entry of its users map has the key hostId
SingleHost ==
  \A k \in DOMAIN rooms :
     Cardinality({ i \in DOMAIN rooms[k].users : rooms[k].users[i].id = rooms[k].hostId }) = 1

\* C1 witness: the host disconnected, members remain and the room has a host
SingleHostWitness ==
  /\ lastEvent.type = "disconnect"
  /\ emitted # << >>
  /\ emitted[1].ev = "host-changed"
  /\ lastEvent.roomId \in DOMAIN rooms
  /\ rooms[lastEvent.roomId].hostId # lastEvent.socket

\* C2 (as claimed): in every reachable state the typing set of every room is
\* a subset of the keys of its users map
TypingSubsetOfMembers ==
  \A k \in DOMAIN rooms : rooms[k].typingUsers \subseteq Keys(rooms[k].users)

\* C3 (as claimed): after an accepted track-update with track t processed at
\* time now, the room's clock is {isPlaying: false, position: 0,
\* timestamp: now, trackId: t.id}
TrackUpdateResetsClock ==
  (lastEvent.type = "track-update" /\ emitted # << >> /\ emitted[1].ev = "track-changed")
    => rooms[lastEvent.roomId].playbackState =
         [ isPlaying |-> FALSE, position |-> 0,
           timestamp |-> emitted[1].payload.timestamp,
           trackId |-> trackIdOrNull(emitted[1].payload.track) ]

\* C4 (as claimed): after the disconnect of a room's host with members
\* remaining, the new host has the smallest joinedAt of the remaining members
FailoverToEarliestJoined ==
  (lastEvent.type = "disconnect" /\ emitted # << >> /\ emitted[1].ev = "host-changed")
    => LET room == rooms[lastEvent.roomId] IN
       \A i \in DOMAIN room.users :
          MapGet(room.users, room.hostId).joinedAt <= room.users[i].joinedAt

\* the current track and the playback clock of a room
Playback(room) == <<room.currentTrack, room.playbackState>>

\* this step processed a track-update or playback-state sent by the socket
\* that is the host of the room k its session names
HostControls(k) ==
  /\ Processed("track-update") \/ Processed("playback-state")
  /\ lastEvent'.socket \in DOMAIN userSessions
  /\ userSessions[lastEvent'.socket].roomId = k
  /\ rooms[k].hostId = lastEvent'.socket

\* this step's create-room stored a new Room object under the code k
NewRoomStored(k) ==
  /\ Processed("create-room")
  /\ emitted'[1].ev = "room-created"
  /\ emitted'[1].payload.roomId = k

NonHostMember(c) ==
  /\ c \in DOMAIN userSessions
  /\ userSessions[c].roomId \in DOMAIN rooms
  /\ MapHas(rooms[userSessions[c].roomId].users, c)
  /\ rooms[userSessions[c].roomId].hostId # c

\* C6: a track-update from a bound member that is not the host is answered
\* with action-error to the sender only, and changes no room
NonHostTrackUpdateRejected ==
  [][ (Processed("track-update") /\ NonHostMember(lastEvent'.socket))
        => /\ emitted' = <<Emit("action-error", {lastEvent'.socket},
                                "Only host can change tracks")>>
           /\ rooms' = rooms ]_vars

\* C6 witness: a non-host member sent track-update and got action-error
NonHostTrackUpdateRejectedWitness ==
  /\ lastEvent.type = "track-update"
  /\ NonHostMember(lastEvent.socket)
  /\ emitted # << >>
  /\ emitted[1].ev = "action-error"

\* C7 (as claimed): every room present before a create-room step is present
\* and unchanged after it
CreateRoomKeepsRooms ==
  [][ Processed("create-room")
        => \A k \in DOMAIN rooms : k \in DOMAIN rooms' /\ rooms'[k] = rooms[k] ]_vars

\* every room in the registry has a member
NoEmptyRoom == \A k \in DOMAIN rooms : Len(rooms[k].users) >= 1

\* the disconnect that removes the last member of the room its session names
\* removes the room's code from the registry
LastMemberLeaves ==
  ( /\ Processed("disconnect")
    /\ lastEvent'.socket \in DOMAIN userSessions
    /\ userSessions[lastEvent'.socket].roomId \in DOMAIN rooms
    /\ Keys(rooms[userSessions[lastEvent'.socket].roomId].users) = {lastEvent'.socket} )
    => userSessions[lastEvent'.socket].roomId \notin DOMAIN rooms'

\* a valid join-room whose code names no room is answered 'Room not found'
JoinMissingRoom ==
  ( /\ Processed("join-room")
    /\ lastEvent'.roomId # NoRoom
    /\ lastEvent'.roomId \notin DOMAIN rooms )
    => /\ emitted' = <<Emit("room-error", {lastEvent'.socket}, "Room not found")>>
       /\ rooms' = rooms

\* C8: every room in the registry has at least one member in every reachable
\* state; the disconnect removing a room's last member removes the room from
\* the registry, and a join-room to a code not in the registry is answered
\* with room-error 'Room not found'
EmptyRoomDestroyed == []NoEmptyRoom /\ [][LastMemberLeaves /\ JoinMissingRoom]_vars

\* C8 witness: the disconnect of a room's last member deleted the room
EmptyRoomDestroyedWitness ==
  /\ lastEvent.type = "disconnect"
  /\ lastEvent.branch = "room-deleted"
  /\ lastEvent.roomId \notin DOMAIN rooms

\* C9 (as claimed): each connection is a key of the users map of at most one
\* room, the one its binding names
OneRoomPerConnection ==
  \A c \in Conns : \A k \in DOMAIN rooms :
     MapHas(rooms[k].users, c) => (c \in DOMAIN userSessions /\ userSessions[c].roomId = k)

\* C10 (as claimed): a connection whose disconnect has been processed is a
\* key of no users map, in no typing set and has no binding
DisconnectedIsGone ==
  \A c \in Conns \ sockets :
     /\ c \notin DOMAIN userSessions
     /\ \A k \in DOMAIN rooms : ~MapHas(rooms[k].users, c) /\ c \notin rooms[k].typingUsers

\* no room has more than MaxMembers members
AtMostTenMembers == \A k \in DOMAIN rooms : Len(rooms[k].users) <= MaxMembers

\* a join-room to a room that already has MaxMembers members is answered
\* with room-error to the sender only and adds no member and no binding
FullJoinRejected ==
  ( /\ Processed("join-room")
    /\ lastEvent'.roomId \in DOMAIN rooms
    /\ Len(rooms[lastEvent'.roomId].users) = MaxMembers )
    => /\ emitted' = <<Emit("room-error", {lastEvent'.socket}, "Room is full")>>
       /\ rooms' = rooms
       /\ userSessions' = userSessions
       /\ sockRooms' = sockRooms

\* C11: no room ever has more than 10 members; a join-room to a room that
\* already has 10 members is answered with room-error to the sender only and
\* adds no member and creates no binding
RoomCapacity == []AtMostTenMembers /\ [][FullJoinRejected]_vars

\* C11 witness: a join-room to a room of 10 members was answered 'Room is full'
RoomCapacityWitness ==
  /\ lastEvent.type = "join-room"
  /\ emitted = <<Emit("room-error", {lastEvent.socket}, "Room is full")>>
  /\ Len(rooms[lastEvent.roomId].users) = MaxMembers
  /\ lastEvent.socket \notin DOMAIN userSessions

\* after n accepted send-message events a room retains min(n, MaxMessages)
\* messages, in the order of their acceptance times
TranscriptRetained ==
  \A k \in DOMAIN rooms :
    LET messages == rooms[k].messages IN
    /\ Len(messages) = Min(steps, MaxMessages)
    /\ \A i \in 1..(Len(messages) - 1) : messages[i].timestamp <= messages[i + 1].timestamp

\* a valid send-message of a member is accepted whatever the transcript's
\* length; the message broadcast becomes the transcript's last entry and only
\* the oldest entry is evicted, and only from a transcript of MaxMessages
NewestAppendedOldestEvicted ==
  Processed("send-message") =>
    /\ lastEvent'.branch = "ok"
    /\ emitted'[2].ev = "new-message"
    /\ LET k == lastEvent'.roomId
           m == emitted'[2].payload.message
       IN /\ m.userId = lastEvent'.socket /\ m.timestamp = now
          /\ rooms'[k].messages =
               IF Len(rooms[k].messages) < MaxMessages
               THEN Append(rooms[k].messages, m)
               ELSE Append(Tail(rooms[k].messages), m)

\* C12: after n accepted send-message events in a room the transcript is
\* exactly the most recent min(n, 100) of those messages in acceptance order;
\* eviction removes only the oldest entries and never rejects a new message
TranscriptIsMostRecent == []TranscriptRetained /\ [][NewestAppendedOldestEvicted]_vars

\* C12 witness: more than MaxMessages messages were accepted, the last one
\* after the clock advanced, and the message of time 0 has been evicted
TranscriptIsMostRecentWitness ==
  /\ steps = MsgSteps
  /\ lastEvent = Event("send-message", 1, CapCode, "ok")
  /\ Len(rooms[CapCode].messages) = MaxMessages
  /\ rooms[CapCode].messages[1].timestamp = 1

\* the playback-sync a request-sync or an accepted join-room sent to its sender
LiveClock(ems) ==
  LET i == CHOOSE i \in 1..Len(ems) : ems[i].ev = "playback-sync" IN ems[i].payload

SyncAnswered ==
  /\ \/ Processed("request-sync")
     \/ Processed("join-room")
  /\ lastEvent'.branch = "ok"

\* C13: for a room whose clock is {isPlaying: true, position: p, timestamp: t}
\* and whose current track has duration D, a request-sync processed at
\* now >= t returns calculatedPosition = min(p + (now - t), D), and the
\* returned and the stored isPlaying stay true even when the result is D
PlayingClockExtrapolated ==
  [][ ( /\ Processed("request-sync")
        /\ lastEvent'.branch = "ok"
        /\ rooms[lastEvent'.roomId].playbackState.isPlaying
        /\ rooms[lastEvent'.roomId].currentTrack.kind = "object" )
      => LET room == rooms[lastEvent'.roomId]
             p == room.playbackState.position
             t == room.playbackState.timestamp
             D == room.currentTrack.duration
             sync == LiveClock(emitted')
         IN /\ now >= t
            /\ sync.calculatedPosition = (IF p + (now - t) <= D THEN p + (now - t) ELSE D)
            /\ sync.isPlaying
            /\ rooms'[lastEvent'.roomId].playbackState.isPlaying
            /\ rooms' = rooms ]_vars

\* C13 witness: a request-sync on a playing clock was answered with the
\* track's duration because the elapsed time ran past it
PlayingClockExtrapolatedWitness ==
  /\ lastEvent.type = "request-sync" /\ lastEvent.branch = "ok"
  /\ LET room == rooms[lastEvent.roomId]
         sync == emitted[1].payload
     IN /\ room.playbackState.isPlaying
        /\ room.currentTrack.kind = "object"
        /\ room.playbackState.position + (sync.serverTimestamp - room.playbackState.timestamp)
             > room.currentTrack.duration
        /\ sync.calculatedPosition = room.currentTrack.duration
        /\ sync.isPlaying

\* C14: when the stored clock's isPlaying is false, or its trackId is null,
\* the live clock returned by request-sync and by the join-time playback-sync
\* has calculatedPosition equal to the stored position
IdleClockNotExtrapolated ==
  [][ ( /\ SyncAnswered
        /\ \/ ~rooms[lastEvent'.roomId].playbackState.isPlaying
           \/ rooms[lastEvent'.roomId].playbackState.trackId = NULL )
      => LiveClock(emitted').calculatedPosition
           = rooms[lastEvent'.roomId].playbackState.position ]_vars

\* C15: in every reachable state of every room, currentTrack is null if and
\* only if the playback clock's trackId is null, for every track payload a
\* host may send in track-update
TrackNullIffClockTrackNull ==
  \A k \in DOMAIN rooms :
    (rooms[k].currentTrack.kind # "object") <=> (rooms[k].playbackState.trackId = NULL)

\* C16: after an accepted create-room by connection c the registry holds a
\* new room whose only member is c and whose hostId is c, with no current
\* track, clock {isPlaying: false, position: 0, trackId: null}, empty
\* transcript and empty typing set; c is bound to that room, and room-created
\* is delivered to c and to no other connection
CreatedRoomIsFresh ==
  (lastEvent.type = "create-room" /\ lastEvent.branch = "ok") =>
    LET c == lastEvent.socket
        k == lastEvent.roomId
    IN /\ k \in DOMAIN rooms
       /\ Keys(rooms[k].users) = {c} /\ Len(rooms[k].users) = 1
       /\ rooms[k].hostId = c
       /\ rooms[k].currentTrack.kind = "null"
       /\ rooms[k].playbackState.isPlaying = FALSE
       /\ rooms[k].playbackState.position = 0
       /\ rooms[k].playbackState.trackId = NULL
       /\ rooms[k].messages = << >>
       /\ rooms[k].typingUsers = {}
       /\ c \in DOMAIN userSessions /\ userSessions[c].roomId = k
       /\ Len(emitted) = 1
       /\ emitted[1].ev = "room-created" /\ emitted[1].to = {c}
       /\ emitted[1].payload.roomId = k

\* C16 witness: a create-room was accepted while another connection was
\* already bound to a room
CreatedRoomIsFreshWitness ==
  /\ lastEvent.type = "create-room" /\ lastEvent.branch = "ok"
  /\ lastEvent.roomId \in DOMAIN rooms
  /\ \E d \in DOMAIN userSessions : d # lastEvent.socket
  /\ emitted[1].to = {lastEvent.socket}

\* C17: an accepted join-room adds the sender to the room's members and binds
\* it; the sender receives room-joined and then playback-sync, every other
\* member of the room receives user-joined, the sender does not, and the room
\* snapshot of room-joined and user-joined already contains the new member
JoinDelivered ==
  [][ (Processed("join-room") /\ lastEvent'.branch = "ok") =>
        LET c == lastEvent'.socket
            k == lastEvent'.roomId
            InSnapshot(state) == \E i \in 1..Len(state.users) : state.users[i].id = c
        IN /\ MapHas(rooms'[k].users, c)
           /\ c \in DOMAIN userSessions' /\ userSessions'[c].roomId = k
           /\ [i \in 1..Len(emitted') |-> emitted'[i].ev]
                = <<"room-joined", "user-joined", "playback-sync">>
           /\ emitted'[1].to = {c} /\ emitted'[3].to = {c}
           /\ (Keys(rooms'[k].users) \ {c}) \subseteq emitted'[2].to
           /\ c \notin emitted'[2].to
           /\ InSnapshot(emitted'[1].payload.room)
           /\ InSnapshot(emitted'[2].payload.room) ]_vars

\* C18: an accepted send-message removes the sender from the typing set and
\* appends exactly one message carrying the sender's id and the sender's name
\* at send time; every member of the room, the sender included, is delivered
\* a user-typing event and then a new-message event, in that order
MessageDelivered ==
  [][ (Processed("send-message") /\ lastEvent'.branch = "ok") =>
        LET c == lastEvent'.socket
            k == lastEvent'.roomId
            old == rooms[k].messages
            new == rooms'[k].messages
        IN /\ c \notin rooms'[k].typingUsers
           /\ Len(new) = Len(old) + 1
           /\ SubSeq(new, 1, Len(old)) = old
           /\ new[Len(new)].userId = c
           /\ new[Len(new)].userName = MapGet(rooms[k].users, c).name
           /\ [i \in 1..Len(emitted') |-> emitted'[i].ev] = <<"user-typing", "new-message">>
           /\ \A i \in 1..2 : Keys(rooms'[k].users) \subseteq emitted'[i].to ]_vars

\* C19: an accepted playback-state {isPlaying, position} from the host
\* processed at time now sets the clock to exactly {isPlaying, position,
\* timestamp: now, trackId: id of the current track or null}, for any position
\* value, and delivers playback-sync with those values to every other member
\* of the room and not to the sender
ClockSetAndBroadcast ==
  [][ (Processed("playback-state") /\ lastEvent'.branch = "ok") =>
        LET c == lastEvent'.socket
            k == lastEvent'.roomId
            clock == rooms'[k].playbackState
            sync == emitted'[1].payload
        IN /\ clock.timestamp = now
           /\ clock.trackId = (IF rooms[k].currentTrack.kind = "object"
                                 /\ rooms[k].currentTrack.id # UNDEF
                               THEN rooms[k].currentTrack.id ELSE NULL)
           /\ Len(emitted') = 1 /\ emitted'[1].ev = "playback-sync"
           /\ emitted'[1].to # {} =>
                /\ sync.isPlaying = clock.isPlaying
                /\ sync.position = clock.position
                /\ sync.timestamp = clock.timestamp
                /\ sync.trackId = clock.trackId
           /\ (Keys(rooms'[k].users) \ {c}) \subseteq emitted'[1].to
           /\ c \notin emitted'[1].to ]_vars

\* an event was answered with room-error, message-error or action-error
ErrorEmitted(ems) ==
  \E i \in 1..Len(ems) : ems[i].ev \in {"room-error", "message-error", "action-error"}

\* C20: an inbound event answered with room-error, message-error or
\* action-error leaves the registry, every room's state and every binding as
\* they were, and delivers no event to a connection other than the sender
ErrorsChangeNothing ==
  [][ (steps' = steps + 1 /\ ErrorEmitted(emitted')) =>
        /\ rooms' = rooms
        /\ userSessions' = userSessions
        /\ sockRooms' = sockRooms
        /\ \A i \in 1..Len(emitted') : emitted'[i].to \subseteq {lastEvent'.socket} ]_vars

\* C20 witness: a non-host member's track-update was answered with
\* action-error while the room has another member
ErrorsChangeNothingWitness ==
  /\ lastEvent.type = "track-update"
  /\ ErrorEmitted(emitted)
  /\ lastEvent.roomId \in DOMAIN rooms
  /\ Len(rooms[lastEvent.roomId].users) >= 2
  /\ emitted[1].to = {lastEvent.socket}

\* C21: every track-update or playback-state event that the server does not
\* apply (the sender has no binding, its room is missing, the sender is not
\* the host, or the handler fails on the payload) results in an action-error
\* event delivered to the sender and to no other connection
UnappliedControlAnswered ==
  [][ ( /\ \/ Processed("track-update")
           \/ Processed("playback-state")
        /\ lastEvent'.branch # "ok" )
      => /\ Len(emitted') = 1
         /\ emitted'[1].ev = "action-error"
         /\ emitted'[1].to = {lastEvent'.socket} ]_vars

\* C22: request-sync and get-room-info change no server state; from a bound
\* connection each delivers exactly one event (playback-sync, respectively
\* room-info) to the sender and nothing to any other connection
QueriesReadOnly ==
  [][ /\ Processed("request-sync") =>
           /\ UNCHANGED <<rooms, userSessions, sockRooms, heartbeats, sockets>>
           /\ lastEvent'.socket \in DOMAIN userSessions =>
                /\ Len(emitted') = 1
                /\ emitted'[1].ev = "playback-sync"
                /\ emitted'[1].to = {lastEvent'.socket}
      /\ Processed("get-room-info") =>
           /\ UNCHANGED <<rooms, userSessions, sockRooms, heartbeats, sockets>>
           /\ lastEvent'.socket \in DOMAIN userSessions =>
                /\ Len(emitted') = 1
                /\ emitted'[1].ev = "room-info"
                /\ emitted'[1].to = {lastEvent'.socket} ]_vars

\* C23: every message stored in a room's transcript or delivered in a
\* new-message event has a body of 1 to 1000 characters, for every
\* send-message payload that passes validation
BodiesInRange ==
  /\ \A k \in DOMAIN rooms : \A i \in 1..Len(rooms[k].messages) :
       /\ Len(rooms[k].messages[i].message) >= 1
       /\ Len(rooms[k].messages[i].message) <= MaxMessageLen
  /\ \A i \in 1..Len(emitted) :
       emitted[i].ev = "new-message" =>
         /\ Len(emitted[i].payload.message.message) >= 1
         /\ Len(emitted[i].payload.message.message) <= MaxMessageLen

\* the characters of an uppercase alphanumeric code
CodeChars ==
  { Upper[i] : i \in 1..Len(Upper) } \cup {"0", "1", "2", "3", "4", "5", "6", "7", "8", "9"}

\* C24: every room code placed in the registry by create-room is exactly 6
\* characters long and uppercase alphanumeric, so it passes join-room's code
\* validation and every stored room can be joined by the code returned in
\* room-created
RoomCodesJoinable ==
  \A k \in DOMAIN rooms :
    /\ Len(k) = CodeLen
    /\ \A i \in 1..Len(k) : k[i] \in CodeChars
    /\ validateJoinData([kind |-> "object", roomId |-> k, userName |-> <<"a">>])

\* C25: in every reachable state a room's hostName equals the name stored in
\* the room's users map for hostId, also after the host re-issues join-room
\* for its own room under a different name and after host failover
HostNameIsHostsName ==
  \A k \in DOMAIN rooms :
    /\ MapHas(rooms[k].users, rooms[k].hostId)
    /\ rooms[k].hostName = MapGet(rooms[k].users, rooms[k].hostId).name

\* C26: if every connection eventually disconnects and no further create-room
\* or join-room is issued, the registry eventually becomes empty: no room
\* outlives all the connections that were ever members of it
RegistryEventuallyEmpty == (sockets = {}) ~> (rooms = << >>)

\* C27: for every entry of the binding map (connection c bound to room code
\* r), the registry contains a room at r and c is a key of that room's users
\* map, in every reachable state
BoundImpliesMember ==
  \A c \in DOMAIN userSessions :
    /\ userSessions[c].roomId \in DOMAIN rooms
    /\ MapHas(rooms[userSessions[c].roomId].users, c)

\* the client's join sequence has ended: the last event the server processed
\* is the client's accepted join-room, everything it sent has been delivered
\* and handled, handleRoomJoined has finished and the Room component is mounted
JoinSequenceEnded ==
  /\ lastEvent = Event("join-room", ClientSocket, lastEvent.roomId, "ok")
  /\ delivered = steps
  /\ inbox = << >>
  /\ client.joining.kind = "null"
  /\ client.mounted

\* C28: a client that joins a room in which playback is in progress ends the
\* join sequence with local isPlaying and position taken from the server's
\* live-extrapolated clock sent at join, however the client's asynchronous
\* handling of room-joined interleaves with the delivery of that playback-sync
JoinedClientHasLiveClock ==
  (JoinSequenceEnded /\ LiveClock(emitted).isPlaying) =>
    /\ client.isPlaying
    /\ client.position >= LiveClock(emitted).calculatedPosition

\* a playback-sync is handled by the mounted Room component
SyncHandled ==
  /\ inbox # << >>
  /\ Head(inbox).ev = "playback-sync"
  /\ inbox' = Tail(inbox)
  /\ client.mounted

\* C29: when a clock snapshot is evaluated at an instant earlier than the
\* snapshot's timestamp, elapsed time is treated as 0: the derived position is
\* never less than the snapshot's position, both in the server's live clock
\* and in the client's handling of playback-sync
DerivedNotBeforeSnapshot ==
  [][ /\ SyncHandled => client'.position >= Head(inbox).payload.position
      /\ \A i \in 1..Len(emitted') :
           (emitted'[i].ev = "playback-sync"
              /\ "calculatedPosition" \in DOMAIN emitted'[i].payload)
             => emitted'[i].payload.calculatedPosition >= emitted'[i].payload.position ]_vars

\* C30: on receipt of a playback-sync with isPlaying true the client sets its
\* local position to min(position + (receiveTime - timestamp), duration of
\* the current track); with isPlaying false it sets it to the snapshot's
\* position; the local position therefore never exceeds the track duration
ClientPositionClamped ==
  [][ (SyncHandled /\ client.currentTrack.kind = "object") =>
        LET data == Head(inbox).payload IN
        /\ client'.position =
             IF data.isPlaying
             THEN Min(data.position + (now - data.timestamp), client.currentTrack.duration)
             ELSE data.position
        /\ client'.position <= client.currentTrack.duration ]_vars

\* C31: every accepted send-message updates the room's last-activity
\* timestamp (the value the idle sweep compares against) to the time the
\* message was accepted
MessageUpdatesLastActivity ==
  [][ (Processed("send-message") /\ lastEvent'.branch = "ok")
        => rooms'[lastEvent'.roomId].lastUpdateTime = now ]_vars

\* this step processed the disconnect of the socket that is the host of the
\* room k its session names
HostDisconnects(k) ==
  /\ Processed("disconnect")
  /\ lastEvent'.socket \in DOMAIN userSessions
  /\ userSessions[lastEvent'.socket].roomId = k
  /\ rooms[k].hostId = lastEvent'.socket

HostChangedThenUserLeft ==
  [][ \A k \in DOMAIN rooms :
        ( /\ HostDisconnects(k)
          /\ MapHas(rooms[k].users, lastEvent'.socket)
          /\ Len(rooms[k].users) > 1 )
        => LET c == lastEvent'.socket
               remaining == Keys(rooms[k].users) \ {c}
           IN /\ Len(emitted') = 2
              /\ emitted'[1].ev = "host-changed" /\ emitted'[2].ev = "user-left"
              /\ remaining \subseteq emitted'[1].to
              /\ remaining \subseteq emitted'[2].to
              /\ k \in DOMAIN rooms'
              /\ emitted'[1].payload.newHostId = rooms'[k].hostId
              /\ rooms'[k].hostId \in remaining
              /\ ~MapHas(emitted'[1].payload.room.users, c)
              /\ ~MapHas(emitted'[2].payload.room.users, c) ]_vars

\* the events whose payload carries a full room snapshot, and the snapshot
SnapshotEvents == {"room-created", "room-joined", "user-joined", "user-left", "host-changed"}

SnapshotOf(e) == IF e.ev = "room-info" THEN e.payload ELSE e.payload.room

\* the most recent Min(Len(stored), n) entries of stored, in stored order
MostRecent(stored, n) ==
  LET m == Min(Len(stored), n) IN [i \in 1..m |-> stored[Len(stored) - m + i]]

\* C34: the messages list of every full-state snapshot (room-created,
\* room-joined, user-joined, user-left, host-changed, room-info) is exactly
\* the most recent min(n, 50) of the room's n stored messages, in stored order
SnapshotCarriesMostRecent ==
  \A i \in DOMAIN emitted :
     emitted[i].ev \in SnapshotEvents \cup {"room-info"} =>
        LET snap == SnapshotOf(emitted[i]) IN
        /\ snap.id \in DOMAIN rooms
        /\ snap.messages = MostRecent(rooms[snap.id].messages, SnapshotMessages)

\* C34 witness: a snapshot was sent of a room that stores more messages than
\* a snapshot carries
SnapshotCarriesMostRecentWitness ==
  \E i \in DOMAIN emitted :
     /\ emitted[i].ev \in SnapshotEvents \cup {"room-info"}
     /\ SnapshotOf(emitted[i]).id \in DOMAIN rooms
     /\ Len(rooms[SnapshotOf(emitted[i]).id].messages) > SnapshotMessages
     /\ Len(SnapshotOf(emitted[i]).messages) = SnapshotMessages

\* the snapshot shows the stored room's host, members, track, clock and
\* typing list, and counts its members
Reflects(snap, room) ==
  /\ snap.hostId = room.hostId
  /\ snap.hostName = room.hostName
  /\ snap.users = room.users
  /\ snap.currentTrack = room.currentTrack
  /\ snap.playbackState = room.playbackState
  /\ snap.typingUsers = room.typingUsers
  /\ snap.memberCount = Len(room.users)

\* C35: the snapshot a get-room-info returns equals, in hostId, hostName,
\* member list, currentTrack, playback clock and typing list, the stored state
\* the last mutation produced, and its memberCount is the number of members;
\* the snapshots carried by user-joined, user-left and host-changed reflect
\* the state after the membership change
SnapshotReflectsState ==
  \A i \in DOMAIN emitted :
     emitted[i].ev \in {"room-info", "user-joined", "user-left", "host-changed"} =>
        LET snap == SnapshotOf(emitted[i]) IN
        /\ snap.id \in DOMAIN rooms
        /\ Reflects(snap, rooms[snap.id])
        /\ emitted[i].ev = "room-info" =>
              /\ lastEvent.socket \in DOMAIN userSessions
              /\ userSessions[lastEvent.socket].roomId = snap.id

\* C35 witness: a get-room-info was answered right after a mutation of the
\* room (a typing flag, a track or a running clock is in the snapshot)
SnapshotReflectsStateWitness ==
  /\ lastEvent.type = "get-room-info"
  /\ Len(emitted) = 1 /\ emitted[1].ev = "room-info"
  /\ steps = MaxSteps
  /\ \/ emitted[1].payload.typingUsers # {}
     \/ emitted[1].payload.currentTrack.kind = "object"
     \/ emitted[1].payload.playbackState.isPlaying

\* C36: heartbeat activity never removes anyone: a pong changes only the
\* sender's binding lastPing; a ping sent by the heartbeat timer, and time
\* passing without a pong, leave every member, binding and host as they are
HeartbeatRemovesNobody ==
  [][ /\ Processed("pong") =>
           /\ UNCHANGED <<rooms, sockets, sockRooms, heartbeats, now>>
           /\ emitted' = << >>
           /\ DOMAIN userSessions' = DOMAIN userSessions
           /\ \A d \in DOMAIN userSessions :
                 userSessions'[d] =
                   IF d = lastEvent'.socket
                   THEN [userSessions[d] EXCEPT !.lastPing = userSessions'[d].lastPing]
                   ELSE userSessions[d]
      /\ Processed("heartbeat") =>
           /\ UNCHANGED <<rooms, userSessions, sockets, sockRooms, now>>
           /\ \A i \in DOMAIN emitted' : emitted'[i] = Emit("ping", {lastEvent'.socket}, NoRoom)
      /\ now' # now => UNCHANGED <<rooms, userSessions, sockets, sockRooms, heartbeats>> ]_vars

\* C36 witness: the heartbeat timer pinged a connected host whose last pong
\* is in the past, and it is still bound, a member and the host
HeartbeatRemovesNobodyWitness ==
  /\ lastEvent.type = "heartbeat"
  /\ emitted = <<Emit("ping", {lastEvent.socket}, NoRoom)>>
  /\ lastEvent.socket \in DOMAIN userSessions
  /\ userSessions[lastEvent.socket].lastPing < now
  /\ userSessions[lastEvent.socket].roomId \in DOMAIN rooms
  /\ LET room == rooms[userSessions[lastEvent.socket].roomId] IN
       room.hostId = lastEvent.socket /\ MapHas(room.users, lastEvent.socket)

\* what a sweep step removes is empty and idle for longer than RoomTimeout,
\* and it removes nothing
SweepRemovesNothing ==
  Processed("cleanup") =>
     /\ \A k \in DOMAIN rooms \ DOMAIN rooms' :
           Len(rooms[k].users) = 0 /\ now - rooms[k].lastUpdateTime > RoomTimeout
     /\ \A k \in DOMAIN rooms : Len(rooms[k].users) >= 1 => k \in DOMAIN rooms'
     /\ rooms' = rooms

\* C37: the periodic sweep removes a room only if its membership is empty and
\* its last activity is more than 24 hours old; it never removes a room that
\* has a member, and because no empty room is ever stored, no sweep step
\* removes any room
SweepNeverRemoves == []NoEmptyRoom /\ [][SweepRemovesNothing]_vars

\* C37 witness: a sweep ran over a room idle for more than 24 hours, and the
\* room is still stored
SweepNeverRemovesWitness ==
  /\ lastEvent.type = "cleanup"
  /\ \E k \in DOMAIN rooms : now - rooms[k].lastUpdateTime > RoomTimeout

\* the render of this step told the player cmd
Commanded(cmd) == \E i \in DOMAIN player'.commands : player'.commands[i].cmd = cmd

\* C38: the client tells its player to seek only when the absolute difference
\* between the player's current time and the target position exceeds 2000 ms,
\* and a change of isPlaying is applied to the player whatever the discrepancy
SeekOnlyBeyondThreshold ==
  [][ /\ (player'.commands # player.commands /\ Commanded("seekTo"))
            => Abs(player'.seen - player'.position) > SeekThreshold
      /\ player'.isPlaying # player.isPlaying
            => /\ Commanded(IF player'.isPlaying THEN "playVideo" ELSE "pauseVideo")
               /\ player'.playing = player'.isPlaying ]_vars

\* this step processed the typing event type of a member of the room its
\* session names
MemberTyped(type) ==
  /\ Processed(type)
  /\ lastEvent'.branch = "ok"
  /\ MapHas(rooms[lastEvent'.roomId].users, lastEvent'.socket)

\* the event processed before this step was the same member's event type in
\* the same room
JustTyped(type) == lastEvent = Event(type, lastEvent'.socket, lastEvent'.roomId, "ok")

\* C39: typing-start and typing-stop are idempotent on the typing set:
\* processing the same event twice in a row from the same member leaves the
\* typing set as processing it once did, and typing-stop after typing-start
\* leaves the set without that member
TypingIdempotent ==
  [][ /\ \A type \in {"typing-start", "typing-stop"} :
            (MemberTyped(type) /\ JustTyped(type)) =>
               rooms'[lastEvent'.roomId].typingUsers = rooms[lastEvent'.roomId].typingUsers
      /\ MemberTyped("typing-start") =>
            rooms'[lastEvent'.roomId].typingUsers =
               rooms[lastEvent'.roomId].typingUsers \cup {lastEvent'.socket}
      /\ MemberTyped("typing-stop") =>
            rooms'[lastEvent'.roomId].typingUsers =
               rooms[lastEvent'.roomId].typingUsers \ {lastEvent'.socket}
      /\ (MemberTyped("typing-stop") /\ JustTyped("typing-start")) =>
            lastEvent'.socket \notin rooms'[lastEvent'.roomId].typingUsers ]_vars

\* C39 witness: a room was created, its member typed and then stopped typing,
\* and the typing set is without the member
TypingIdempotentWitness ==
  /\ lastEvent.type = "typing-stop" /\ lastEvent.branch = "ok"
  /\ steps = MaxSteps
  /\ lastEvent.roomId \in DOMAIN rooms
  /\ MapHas(rooms[lastEvent.roomId].users, lastEvent.socket)
  /\ lastEvent.socket \notin rooms[lastEvent.roomId].typingUsers
  /\ Len(emitted) = 1 /\ emitted[1].ev = "user-typing"
  /\ emitted[1].payload.typingUsers = {}

\* C40: in every reachable state a room's top-level isPlaying and position
\* fields equal playbackState.isPlaying and playbackState.position
TopLevelMirrorsClock ==
  \A k \in DOMAIN rooms :
     /\ rooms[k].isPlaying = rooms[k].playbackState.isPlaying
     /\ rooms[k].position = rooms[k].playbackState.position

\* C40 witness: the host's playback-state was applied and the room's clock
\* and top-level fields hold what it sent, no longer the constructor's values
TopLevelMirrorsClockWitness ==
  /\ lastEvent.type = "playback-state" /\ lastEvent.branch = "ok"
  /\ lastEvent.roomId \in DOMAIN rooms
  /\ LET room == rooms[lastEvent.roomId] IN
       /\ <<room.playbackState.isPlaying, room.playbackState.position>> # <<FALSE, 0>>
       /\ <<room.isPlaying, room.position>> # <<FALSE, 0>>

=============================================================================
